---- MODULE Spec2Model ----
(***************************************************************************)
(* Model of the teaching-assistant orchestrator: task classification       *)
(* (utils/helpers.ts), the plan -> delegate -> integrate -> verify loop of *)
(* MasterTA (agents/master.ts), the course state store                     *)
(* (state/course_state.ts), the run command (cli.ts) and the sandboxed     *)
(* file tools (tools/fs_tools.ts).                                         *)
(*                                                                         *)
(* Specifications: SpecPlan (planning over every task text), Spec (a run   *)
(* of MasterTA.execute), SpecStore (a course state built up, saved and     *)
(* restored), SpecCli (the run command around a run), SpecFs (calls of the *)
(* file tools) and SpecRegistry (registerNotation calls on a new state).   *)
(*                                                                         *)
(* A text is a sequence of one-character strings, so that substring        *)
(* search and lower-casing are computed rather than assumed.               *)
(***************************************************************************)
EXTENDS Integers, Sequences, FiniteSets, TLC

(***************************************************************************)
(* Bounds of the model                                                     *)
(***************************************************************************)
\* number of words joined into a task text
MaxWords == 3

\* notation records of the persisted document plus registerNotation calls
MaxNotation == 3

\* files one handler writes in a run
MaxFiles == 1

(***************************************************************************)
(* Texts                                                                   *)
(***************************************************************************)
UpperCase ==
    <<"A", "B", "C", "D", "E", "F", "G", "H", "I", "J", "K", "L", "M", "N", "O", "P", "Q",
      "R", "S", "T", "U", "V", "W", "X", "Y", "Z">>

LowerCase ==
    <<"a", "b", "c", "d", "e", "f", "g", "h", "i", "j", "k", "l", "m", "n", "o", "p", "q",
      "r", "s", "t", "u", "v", "w", "x", "y", "z">>

\* String.prototype.toLowerCase on one character (ASCII range)
LowerChar(c) ==
    IF \E i \in 1..Len(UpperCase) : UpperCase[i] = c
    THEN LowerCase[CHOOSE i \in 1..Len(UpperCase) : UpperCase[i] = c]
    ELSE c

\* String.prototype.toLowerCase
ToLowerCase(s) == [i \in 1..Len(s) |-> LowerChar(s[i])]

\* String.prototype.includes: sub occurs in s as a contiguous substring
Includes(s, sub) ==
    \E i \in 0..(Len(s) - Len(sub)) : SubSeq(s, i + 1, i + Len(sub)) = sub

\* Array.prototype.some over a keyword list
SomeIncluded(kws, s) == \E i \in 1..Len(kws) : Includes(s, kws[i])

(***************************************************************************)
(* classifyTask (utils/helpers.ts)                                         *)
(***************************************************************************)
\* the keys of the keywords object, in insertion order
Families == << "latex", "problemset", "research", "rcode" >>

TaskTypes == { "latex", "problemset", "research", "rcode", "mixed" }

keywords ==
    [ latex |->
        << <<"l", "a", "t", "e", "x">>,
           <<"s", "l", "i", "d", "e", "s">>,
           <<"b", "e", "a", "m", "e", "r">>,
           <<"c", "o", "m", "p", "i", "l", "e">>,
           <<"t", "e", "x">>,
           <<"m", "a", "c", "r", "o">>,
           <<"p", "o", "l", "i", "s", "h">> >>,
      problemset |->
        << <<"p", "r", "o", "b", "l", "e", "m">>,
           <<"e", "x", "e", "r", "c", "i", "s", "e">>,
           <<"s", "o", "l", "u", "t", "i", "o", "n">>,
           <<"h", "o", "m", "e", "w", "o", "r", "k">>,
           <<"a", "s", "s", "i", "g", "n", "m", "e", "n", "t">>,
           <<"q", "u", "i", "z">> >>,
      research |->
        << <<"r", "e", "s", "e", "a", "r", "c", "h">>,
           <<"l", "i", "t", "e", "r", "a", "t", "u", "r", "e">>,
           <<"c", "i", "t", "a", "t", "i", "o", "n">>,
           <<"b", "i", "b", "t", "e", "x">>,
           <<"p", "a", "p", "e", "r">>,
           <<"r", "e", "f", "e", "r", "e", "n", "c", "e">>,
           <<"b", "a", "c", "k", "g", "r", "o", "u", "n", "d">> >>,
      rcode |->
        << <<"r", " ", "c", "o", "d", "e">>,
           <<"r", " ", "s", "c", "r", "i", "p", "t">>,
           <<"r", "s", "t", "u", "d", "i", "o">>,
           <<"a", "n", "a", "l", "y", "s", "i", "s">>,
           <<"d", "a", "t", "a">>,
           <<"p", "l", "o", "t">>,
           <<"s", "i", "m", "u", "l", "a", "t", "i", "o", "n">> >> ]

\* the matches object of classifyTask for a lower-cased text
matches(lower) ==
    [ f \in { Families[i] : i \in 1..Len(Families) } |-> SomeIncluded(keywords[f], lower) ]

\* Object.values(matches).filter(Boolean).length
matchCount(m) == Cardinality({ i \in 1..Len(Families) : m[Families[i]] })

\* Object.entries(matches).find(([_, matched]) => matched)?.[0]
FirstMatched(m) ==
    Families[CHOOSE i \in 1..Len(Families) :
                /\ m[Families[i]]
                /\ \A j \in 1..(i - 1) : ~m[Families[j]]]

\* classifyTask searching the text as given, without lower-casing it
classifyTaskCaseSensitive(taskDescription) ==
    LET m == matches(taskDescription)
        n == matchCount(m)
    IN  IF n = 0 THEN "mixed"
        ELSE IF n > 1 THEN "mixed"
        ELSE FirstMatched(m)

classifyTask(taskDescription) ==
    LET lower == ToLowerCase(taskDescription)
        m     == matches(lower)
        n     == matchCount(m)
    IN  IF n = 0 THEN "mixed"
        ELSE IF n > 1 THEN "mixed"
        ELSE FirstMatched(m)

(***************************************************************************)
(* MasterTA.createPlan (agents/master.ts)                                  *)
(***************************************************************************)
Agents == << "LatexTA", "ProblemSetTA", "ResearchTA", "RCodeTA" >>

AgentSet == { Agents[i] : i \in 1..Len(Agents) }

\* the literals of the 'mixed' branch of createPlan
kwLatex == <<"l", "a", "t", "e", "x">>
kwSlide == <<"s", "l", "i", "d", "e">>
kwProblem == <<"p", "r", "o", "b", "l", "e", "m">>
kwExercise == <<"e", "x", "e", "r", "c", "i", "s", "e">>
kwResearch == <<"r", "e", "s", "e", "a", "r", "c", "h">>
kwLiterature == <<"l", "i", "t", "e", "r", "a", "t", "u", "r", "e">>
kwRCode == <<"r", " ", "c", "o", "d", "e">>
kwScript == <<"s", "c", "r", "i", "p", "t">>

\* agents.push(x) when cond holds
PushIf(agents, cond, x) == IF cond THEN Append(agents, x) ELSE agents

\* the re-scan without the fallback to the default pair
MixedAgentsNoDefault(task) ==
    LET lower == ToLowerCase(task)
        a1 == PushIf(<< >>, Includes(lower, kwLatex) \/ Includes(lower, kwSlide), "LatexTA")
        a2 == PushIf(a1, Includes(lower, kwProblem) \/ Includes(lower, kwExercise),
                     "ProblemSetTA")
        a3 == PushIf(a2, Includes(lower, kwResearch) \/ Includes(lower, kwLiterature),
                     "ResearchTA")
    IN  PushIf(a3, Includes(lower, kwRCode) \/ Includes(lower, kwScript), "RCodeTA")

\* the 'mixed' branch: the re-scan of the lower-cased task text
MixedAgents(task) ==
    LET lower == ToLowerCase(task)
        a1 == PushIf(<< >>, Includes(lower, kwLatex) \/ Includes(lower, kwSlide), "LatexTA")
        a2 == PushIf(a1, Includes(lower, kwProblem) \/ Includes(lower, kwExercise),
                     "ProblemSetTA")
        a3 == PushIf(a2, Includes(lower, kwResearch) \/ Includes(lower, kwLiterature),
                     "ResearchTA")
        a4 == PushIf(a3, Includes(lower, kwRCode) \/ Includes(lower, kwScript), "RCodeTA")
    IN  IF Len(a4) = 0 THEN << "ProblemSetTA", "LatexTA" >> ELSE a4

\* createPlan with the handlers of 'research' and 'rcode' exchanged
createPlanSwapped(task) ==
    LET taskType == classifyTask(task)
        agents ==
            CASE taskType = "latex"      -> << "LatexTA" >>
              [] taskType = "problemset" -> << "ProblemSetTA" >>
              [] taskType = "research"   -> << "RCodeTA" >>
              [] taskType = "rcode"      -> << "ResearchTA" >>
              [] taskType = "mixed"      -> MixedAgents(task)
        parallel == IF taskType = "mixed" THEN Len(agents) > 1 ELSE FALSE
    IN  [ taskType |-> taskType, agents |-> agents, parallel |-> parallel ]

\* createPlan running every 'mixed' plan in parallel
createPlanMixedParallel(task) ==
    LET taskType == classifyTask(task)
        agents ==
            CASE taskType = "latex"      -> << "LatexTA" >>
              [] taskType = "problemset" -> << "ProblemSetTA" >>
              [] taskType = "research"   -> << "ResearchTA" >>
              [] taskType = "rcode"      -> << "RCodeTA" >>
              [] taskType = "mixed"      -> MixedAgents(task)
    IN  [ taskType |-> taskType, agents |-> agents, parallel |-> taskType = "mixed" ]

createPlan(task) ==
    LET taskType == classifyTask(task)
        agents ==
            CASE taskType = "latex"      -> << "LatexTA" >>
              [] taskType = "problemset" -> << "ProblemSetTA" >>
              [] taskType = "research"   -> << "ResearchTA" >>
              [] taskType = "rcode"      -> << "RCodeTA" >>
              [] taskType = "mixed"      -> MixedAgents(task)
        parallel == IF taskType = "mixed" THEN Len(agents) > 1 ELSE FALSE
    IN  [ taskType |-> taskType, agents |-> agents, parallel |-> parallel ]

(***************************************************************************)
(* Task texts                                                              *)
(***************************************************************************)
Space == << " " >>

\* words a task text is built from: classifier keywords of every family,
\* keywords of the re-scan only, words that hold a keyword inside them or
\* across a word boundary, mixed-case words and words without any keyword
Words ==
    { <<"s", "l", "i", "d", "e", "s">>,
      <<"b", "e", "a", "m", "e", "r">>,
      <<"L", "a", "T", "e", "X">>,
      <<"p", "r", "o", "b", "l", "e", "m">>,
      <<"q", "u", "i", "z">>,
      <<"r", "e", "s", "e", "a", "r", "c", "h">>,
      <<"c", "i", "t", "a", "t", "i", "o", "n">>,
      <<"b", "i", "b", "t", "e", "x">>,
      <<"d", "a", "t", "a">>,
      <<"c", "l", "e", "a", "r">>,
      <<"c", "o", "d", "e">>,
      <<"s", "c", "r", "i", "p", "t">>,
      <<"u", "n", "i", "f", "y">> }

\* every classifier keyword, as a one-keyword task text
KeywordTexts ==
    UNION { { keywords[Families[i]][j] : j \in 1..Len(keywords[Families[i]]) } :
            i \in 1..Len(Families) }

\* task texts of the documentation and the demo script
taskFixSlides ==
    <<"F", "i", "x", " ", "l", "e", "c", "t", "u", "r", "e", " ", "3", " ", "s", "l", "i",
      "d", "e", "s", " ", "e", "r", "r", "o", "r", "s", " ", "a", "n", "d", " ", "u", "n",
        "i", "f", "y", " ", "n", "o", "t", "a", "t", "i", "o", "n">>

taskSlidesHomework ==
    <<"C", "r", "e", "a", "t", "e", " ", "l", "e", "c", "t", "u", "r", "e", " ", "5", " ",
      "s", "l", "i", "d", "e", "s", " ", "a", "n", "d", " ", "h", "o", "m", "e", "w", "o",
        "r", "k", " ", "p", "r", "o", "b", "l", "e", "m", "s">>

taskFixLatex ==
    <<"F", "i", "x", " ", "l", "e", "c", "t", "u", "r", "e", " ", "3", " ", "s", "l", "i",
      "d", "e", "s", " ", "L", "a", "T", "e", "X", " ", "e", "r", "r", "o", "r", "s", " ",
        "a", "n", "d", " ", "u", "n", "i", "f", "y", " ", "n", "o", "t", "a", "t", "i", "o", "n">>

taskBibtex ==
    <<"R", "e", "s", "e", "a", "r", "c", "h", " ", "t", "o", "p", "i", "c", " ", "X", " ",
      "a", "n", "d", " ", "g", "e", "n", "e", "r", "a", "t", "e", " ", "b", "i", "b", "t",
        "e", "x", " ", "e", "n", "t", "r", "i", "e", "s">>

ExampleTasks == { taskFixSlides, taskSlidesHomework, taskFixLatex, taskBibtex }

RECURSIVE WordTexts(_)
\* the texts of exactly n words, joined by single spaces
WordTexts(n) ==
    IF n = 1 THEN Words
    ELSE { t \o Space \o w : t \in WordTexts(n - 1), w \in Words }

\* the texts planned: the word texts, every keyword alone, the documented
\* tasks and the empty text
Tasks ==
    UNION { WordTexts(n) : n \in 1..MaxWords } \cup KeywordTexts \cup ExampleTasks
        \cup { << >> }

(***************************************************************************)
(* Course state store (state/course_state.ts)                              *)
(***************************************************************************)
\* the notation records that registrations and persisted documents draw from
NotationEntries ==
    { [ symbol |-> "Q", meaning |-> "quantity", introducedIn |-> 1 ],
      [ symbol |-> "Q", meaning |-> "quality",  introducedIn |-> 4 ],
      [ symbol |-> "P", meaning |-> "price",    introducedIn |-> 1 ] }

RECURSIVE SeqsUpTo(_, _)
\* the sequences over S of length at most n
SeqsUpTo(S, n) ==
    IF n = 0 THEN { << >> }
    ELSE LET shorter == SeqsUpTo(S, n - 1)
         IN  shorter \cup { Append(q, x) : q \in { r \in shorter : Len(r) = n - 1 }, x \in S }

\* this.notationRegistry.find(n => n.symbol === symbol): index of the first
\* entry of the symbol, 0 when there is none
FindSymbol(registry, symbol) ==
    IF \E i \in 1..Len(registry) : registry[i].symbol = symbol
    THEN CHOOSE i \in 1..Len(registry) :
            /\ registry[i].symbol = symbol
            /\ \A j \in 1..(i - 1) : registry[j].symbol # symbol
    ELSE 0

\* registerNotation moving an existing entry to the newly given lecture
registerNotationLectureMoved(registry, symbol, meaning, lectureNumber) ==
    LET existing == FindSymbol(registry, symbol)
    IN  IF existing # 0
        THEN [ registry EXCEPT ![existing].meaning = meaning,
                               ![existing].introducedIn = lectureNumber ]
        ELSE Append(registry, [ symbol |-> symbol, meaning |-> meaning,
                                introducedIn |-> lectureNumber ])

\* CourseState.registerNotation (no context argument)
registerNotation(registry, symbol, meaning, lectureNumber) ==
    LET existing == FindSymbol(registry, symbol)
    IN  IF existing # 0
        THEN [ registry EXCEPT ![existing].meaning = meaning ]
        ELSE Append(registry, [ symbol |-> symbol, meaning |-> meaning,
                                introducedIn |-> lectureNumber ])

RECURSIVE Distinct(_)
\* the elements of a sequence in order of first appearance, each once: the
\* iteration order of a Map's keys and of a Set
Distinct(q) ==
    IF Len(q) = 0 THEN << >>
    ELSE LET front == Distinct(SubSeq(q, 1, Len(q) - 1))
             last  == q[Len(q)]
         IN  IF \E i \in 1..Len(front) : front[i] = last THEN front ELSE Append(front, last)

\* symbolMap.get(symbol): the entries of a symbol, in registry order
EntriesOf(registry, symbol) == SelectSeq(registry, LAMBDA e : e.symbol = symbol)

\* the meanings kept in an array instead of a Set
MeaningsOfAsArray(registry, symbol) ==
    LET entries == EntriesOf(registry, symbol)
    IN  [ i \in 1..Len(entries) |-> entries[i].meaning ]

\* new Set(entries.map(e => e.meaning)), in iteration order
MeaningsOf(registry, symbol) ==
    LET entries == EntriesOf(registry, symbol)
    IN  Distinct([ i \in 1..Len(entries) |-> entries[i].meaning ])

\* `Symbol "${symbol}" has conflicting meanings: ${meanings.join(', ')}`
ConflictMessage(symbol, meanings) ==
    [ kind |-> "conflict", symbol |-> symbol, meanings |-> meanings ]

\* CourseState.verifyNotationConsistency
verifyNotationConsistency(registry) ==
    LET symbols == Distinct([ i \in 1..Len(registry) |-> registry[i].symbol ])
        conflicting == SelectSeq(symbols, LAMBDA sy : Len(MeaningsOf(registry, sy)) > 1)
        conflicts == [ i \in 1..Len(conflicting) |->
                         ConflictMessage(conflicting[i], MeaningsOf(registry, conflicting[i])) ]
    IN  [ consistent |-> Len(conflicts) = 0, conflicts |-> conflicts ]

\* the most assumptions registered in one course state
MaxAssumptions == 2

\* course names given with --course (its default first)
CourseNames == { "Economics Course", "Behavioral Economics" }

\* type Language = 'en' | 'de'
Languages == { "en", "de" }

\* lecture numbers used as validFrom and as validTo
LectureNumbers == { 2, 5 }

\* the arguments of registerAssumption: validTo is optional
AssumptionArgs ==
    [ description : { "perfect competition" }, introducedIn : { 1 },
      validFrom : LectureNumbers, hasValidTo : BOOLEAN, validTo : LectureNumbers ]

\* id = `assumption_${this.assumptions.length + 1}`
AssumptionId(n) == [ prefix |-> "assumption_", number |-> n ]

\* registerAssumption numbering an id by the lecture of the assumption
registerAssumptionIdByLecture(list, description, introducedIn, validFrom, hasValidTo, validTo) ==
    Append(list, [ id |-> AssumptionId(introducedIn),
                   description |-> description,
                   introducedIn |-> introducedIn,
                   validFrom |-> validFrom,
                   hasValidTo |-> hasValidTo,
                   validTo |-> IF hasValidTo THEN validTo ELSE 0 ])

\* CourseState.registerAssumption on the assumptions array; a validTo that
\* is not given stays undefined (hasValidTo false)
registerAssumption(list, description, introducedIn, validFrom, hasValidTo, validTo) ==
    Append(list, [ id |-> AssumptionId(Len(list) + 1),
                   description |-> description,
                   introducedIn |-> introducedIn,
                   validFrom |-> validFrom,
                   hasValidTo |-> hasValidTo,
                   validTo |-> IF hasValidTo THEN validTo ELSE 0 ])

\* LectureMetadata values given to updateLecture (number and title; the
\* string lists of the metadata are left out)
LectureMetadatas ==
    { [ number |-> 1, title |-> "Supply" ],
      [ number |-> 1, title |-> "Demand" ],
      [ number |-> 2, title |-> "Markets" ] }

\* Map.prototype.set on a map kept as its entries in insertion order: the
\* value of a present key is replaced in place, a new key goes to the end
MapSet(entries, key, value) ==
    IF \E i \in 1..Len(entries) : entries[i][1] = key
    THEN [ i \in 1..Len(entries) |->
             IF entries[i][1] = key THEN << key, value >> ELSE entries[i] ]
    ELSE Append(entries, << key, value >>)

\* CourseState.updateLecture
updateLecture(lectures, metadata) == MapSet(lectures, metadata.number, metadata)

RECURSIVE MapFromEntries(_)
\* new Map(iterable of [key, value] pairs)
MapFromEntries(pairs) ==
    IF Len(pairs) = 0 THEN << >>
    ELSE MapSet(MapFromEntries(SubSeq(pairs, 1, Len(pairs) - 1)),
                pairs[Len(pairs)][1], pairs[Len(pairs)][2])

\* new CourseState(courseName, language): the two strings and empty lists
NewCourseState(name, lang) ==
    [ courseName |-> name, language |-> lang, notationRegistry |-> << >>,
      assumptions |-> << >>, lectures |-> << >>, undefinedFields |-> {} ]

\* a JSON object without keys
EmptyObject == [ k \in {} |-> k ]

\* JSON.stringify leaves out a key whose value is undefined
Key(present, object) == IF present THEN object ELSE EmptyObject

\* an Assumption as JSON.stringify writes it: no validTo key when undefined
AssumptionToJSON(a) ==
    [ id |-> a.id, description |-> a.description, introducedIn |-> a.introducedIn,
      validFrom |-> a.validFrom ]
    @@ Key(a.hasValidTo, [ validTo |-> a.validTo ])

\* the Assumption object that JSON.parse builds
AssumptionFromJSON(j) ==
    [ id |-> j.id, description |-> j.description, introducedIn |-> j.introducedIn,
      validFrom |-> j.validFrom,
      hasValidTo |-> "validTo" \in DOMAIN j,
      validTo |-> IF "validTo" \in DOMAIN j THEN j.validTo ELSE 0 ]

\* CourseState.toJSON: the document with the fields of the state, the
\* lectures map as the array of its [key, value] entries (syllabus and
\* learningObjectives, which no method changes, are left out)
toJSON(state) ==
    [ kind |-> "json",
      data |-> [ language |-> state.language, lectures |-> state.lectures ]
               @@ Key("courseName" \notin state.undefinedFields,
                      [ courseName |-> state.courseName ])
               @@ Key("notationRegistry" \notin state.undefinedFields,
                      [ notationRegistry |-> state.notationRegistry ])
               @@ Key("assumptions" \notin state.undefinedFields,
                      [ assumptions |->
                          [ i \in 1..Len(state.assumptions) |->
                              AssumptionToJSON(state.assumptions[i]) ] ]) ]

\* CourseState.fromJSON throws: JSON.parse on text that is not JSON, or
\* the read of data.courseName when the text is the JSON value null
fromJSONThrows(content) == content.kind # "json"

\* CourseState.fromJSON keeping the map of a new CourseState
fromJSONWithoutLectures(content) ==
    LET data == content.data
        Has(k) == k \in DOMAIN data
    IN  [ courseName |-> IF Has("courseName") THEN data.courseName ELSE "",
          language |-> IF Has("language") THEN data.language ELSE "en",
          notationRegistry |->
              IF Has("notationRegistry") THEN data.notationRegistry ELSE << >>,
          assumptions |->
              IF Has("assumptions")
              THEN [ i \in 1..Len(data.assumptions) |->
                       AssumptionFromJSON(data.assumptions[i]) ]
              ELSE << >>,
          lectures |-> << >>,
          undefinedFields |->
              { k \in { "courseName", "notationRegistry", "assumptions" } : ~Has(k) } ]

\* CourseState.fromJSON on a document that parses to an object: a key the
\* document lacks leaves its field undefined (language: the constructor's
\* default), the lectures map is rebuilt from the entries
fromJSON(content) ==
    LET data == content.data
        Has(k) == k \in DOMAIN data
    IN  [ courseName |-> IF Has("courseName") THEN data.courseName ELSE "",
          language |-> IF Has("language") THEN data.language ELSE "en",
          notationRegistry |->
              IF Has("notationRegistry") THEN data.notationRegistry ELSE << >>,
          assumptions |->
              IF Has("assumptions")
              THEN [ i \in 1..Len(data.assumptions) |->
                       AssumptionFromJSON(data.assumptions[i]) ]
              ELSE << >>,
          lectures |-> IF Has("lectures") THEN MapFromEntries(data.lectures) ELSE << >>,
          undefinedFields |->
              { k \in { "courseName", "notationRegistry", "assumptions" } : ~Has(k) } ]

(***************************************************************************)
(* Sandboxed file tools (tools/fs_tools.ts)                                *)
(***************************************************************************)
\* the most calls of the file tools in one behaviour
MaxFsCalls == 2

\* names of directories and files; Parent and Current are '..' and '.'
DirCourse == << "c", "o", "u", "r", "s", "e" >>

DirCourseOld == << "c", "o", "u", "r", "s", "e", "_", "o", "l", "d" >>

DirHome == << "h", "o", "m", "e" >>

FileTex == << "a", ".", "t", "e", "x" >>

Parent == << ".", "." >>

Current == << "." >>

RECURSIVE JoinSegments(_)
\* every segment with the separator before it
JoinSegments(segments) ==
    IF Len(segments) = 0 THEN << >>
    ELSE JoinSegments(SubSeq(segments, 1, Len(segments) - 1))
         \o << "/" >> \o segments[Len(segments)]

\* an absolute path, kept as its segments, as the string path.resolve
\* returns: '/' for the root
PathString(segments) ==
    IF Len(segments) = 0 THEN << "/" >> ELSE JoinSegments(segments)

RECURSIVE Normalize(_, _)
\* path.resolve's normalisation: '.' is dropped, '..' removes the segment
\* before it (none at the root)
Normalize(stack, parts) ==
    IF Len(parts) = 0 THEN stack
    ELSE LET before == Normalize(stack, SubSeq(parts, 1, Len(parts) - 1))
             part   == parts[Len(parts)]
         IN  IF part = Current THEN before
             ELSE IF part = Parent
                  THEN SubSeq(before, 1, IF Len(before) = 0 THEN 0 ELSE Len(before) - 1)
                  ELSE Append(before, part)

\* path.resolve(basePath, filePath): an absolute filePath replaces the base
resolve(base, filePath) ==
    Normalize(IF filePath.absolute THEN << >> ELSE base, filePath.parts)

\* String.prototype.startsWith
StartsWith(s, prefix) ==
    /\ Len(s) >= Len(prefix)
    /\ SubSeq(s, 1, Len(prefix)) = prefix

\* validatePath throws 'Access denied: path outside sandbox'
validatePathThrows(base, filePath) ==
    ~StartsWith(PathString(resolve(base, filePath)), PathString(base))

\* the value validatePath returns
validatePath(base, filePath) == resolve(base, filePath)

\* path.dirname of an absolute path
dirname(segments) ==
    SubSeq(segments, 1, IF Len(segments) = 0 THEN 0 ELSE Len(segments) - 1)

\* the base directories given to the FileSystemTools constructor
BasePaths == { << DirCourse >>, << DirHome, DirCourse >> }

\* the path arguments given to the file tools
FilePaths ==
    { [ absolute |-> FALSE, parts |-> << FileTex >> ],
      [ absolute |-> FALSE, parts |-> << Current >> ],
      [ absolute |-> FALSE, parts |-> << DirHome, Parent, FileTex >> ],
      [ absolute |-> FALSE, parts |-> << Parent, FileTex >> ],
      [ absolute |-> FALSE, parts |-> << Parent, DirCourse, FileTex >> ],
      [ absolute |-> FALSE, parts |-> << Parent, DirCourseOld, FileTex >> ],
      [ absolute |-> TRUE, parts |-> << DirCourse, FileTex >> ],
      [ absolute |-> TRUE, parts |-> << DirHome, FileTex >> ],
      [ absolute |-> TRUE, parts |-> << >> ] }

(***************************************************************************)
(* Handlers (agents/*.ts) and their results                                *)
(***************************************************************************)
\* file names a model response can make a handler write
Files == { "a.tex", "b.tex" }

\* the text the model returns to a handler
Response(agent) ==
    CASE agent = "LatexTA"      -> "LatexTA response"
      [] agent = "ProblemSetTA" -> "ProblemSetTA response"
      [] agent = "ResearchTA"   -> "ResearchTA response"
      [] agent = "RCodeTA"      -> "RCodeTA response"

\* BaseAgent.callClaude: `Claude API error: ${error.message}`
ApiError == "Claude API error"

\* BaseAgent.createSuccessResult (no errors field)
createSuccessResult(agentType, output, files) ==
    [ agentType |-> agentType, success |-> TRUE, output |-> output,
      hasFiles |-> TRUE, files |-> files, hasErrors |-> FALSE, errors |-> << >> ]

\* BaseAgent.createErrorResult (no files field)
createErrorResult(agentType, errorMessage) ==
    [ agentType |-> agentType, success |-> FALSE, output |-> "",
      hasFiles |-> FALSE, files |-> << >>, hasErrors |-> TRUE,
      errors |-> << errorMessage >> ]

\* createChangeLogEntry; the wall-clock timestamp is left out
createChangeLogEntry(agent, action, files, description) ==
    [ agent |-> agent, action |-> action, files |-> files, description |-> description ]

\* the length executeSubAgent cuts the task text to
TaskDescriptionLength == 60

\* `Completed task: ${task.substring(0, 60)}${task.length > 60 ? '...' : ''}`
CompletedDescription(text) ==
    [ prefix |-> "Completed task: ",
      text |-> SubSeq(text, 1, IF Len(text) > TaskDescriptionLength
                               THEN TaskDescriptionLength ELSE Len(text)),
      ellipsis |-> Len(text) > TaskDescriptionLength ]

(***************************************************************************)
(* MasterTA.integrateResults, MasterTA.verify, generateFinalOutput         *)
(***************************************************************************)
RECURSIVE Flatten(_)
\* allFiles.push(...result.files) over a sequence of file lists
Flatten(lists) ==
    IF Len(lists) = 0 THEN << >>
    ELSE Flatten(SubSeq(lists, 1, Len(lists) - 1)) \o lists[Len(lists)]

\* one `## ${result.agentType}` section of the combined output
Section(result) ==
    IF result.success
    THEN [ title |-> result.agentType, kind |-> "output", body |-> << result.output >> ]
    ELSE [ title |-> result.agentType, kind |-> "errors",
           body |-> IF result.hasErrors THEN result.errors ELSE << >> ]

\* integrateResults listing each file name once
integrateResultsDistinct(results, originalTask) ==
    [ output |-> [ task |-> originalTask,
                   sections |-> [ i \in 1..Len(results) |-> Section(results[i]) ] ],
      files |-> Distinct(Flatten([ i \in 1..Len(results) |->
                                     IF results[i].success /\ results[i].hasFiles
                                     THEN results[i].files ELSE << >> ])) ]

integrateResults(results, originalTask) ==
    [ output |-> [ task |-> originalTask,
                   sections |-> [ i \in 1..Len(results) |-> Section(results[i]) ] ],
      files |-> Flatten([ i \in 1..Len(results) |->
                            IF results[i].success /\ results[i].hasFiles
                            THEN results[i].files ELSE << >> ]) ]

\* `File not found: ${file}`
MissingMessage(file) == [ kind |-> "missing", file |-> file ]

NoFilesWarning == "No files were generated"

\* the loop over integrated.files with this.fs.exists
MissingIssues(files, existing) ==
    LET missing == SelectSeq(files, LAMBDA f : f \notin existing)
    IN  [ i \in 1..Len(missing) |-> MissingMessage(missing[i]) ]

\* passed computed from issues and warnings together
PassedNothingReported(issues, warnings) == Len(issues) = 0 /\ Len(warnings) = 0

\* passed = issues.length === 0
Passed(issues, warnings) == Len(issues) = 0

\* verify reporting a missing file as a warning
verifyMissingAsWarning(integ, registry, existing) ==
    LET notationCheck == verifyNotationConsistency(registry)
        issues   == IF ~notationCheck.consistent THEN notationCheck.conflicts ELSE << >>
        missing  == SelectSeq(integ.files, LAMBDA f : f \notin existing)
        warnings == (IF Len(integ.files) = 0 THEN << NoFilesWarning >> ELSE << >>)
                    \o [ i \in 1..Len(missing) |-> "File not found" ]
    IN  [ passed |-> Passed(issues, warnings), issues |-> issues, warnings |-> warnings ]

\* verify reporting an empty file list as an issue
verifyNoFilesAsIssue(integ, registry, existing) ==
    LET notationCheck == verifyNotationConsistency(registry)
        issues0  == IF ~notationCheck.consistent THEN notationCheck.conflicts ELSE << >>
        issues   == issues0
                    \o (IF Len(integ.files) = 0 THEN << NoFilesWarning >> ELSE << >>)
                    \o MissingIssues(integ.files, existing)
    IN  [ passed |-> Passed(issues, << >>), issues |-> issues, warnings |-> << >> ]

\* MasterTA.verify; existing is the set of files fs.exists answers true for
verify(integ, registry, existing) ==
    LET notationCheck == verifyNotationConsistency(registry)
        issues0  == IF ~notationCheck.consistent THEN notationCheck.conflicts ELSE << >>
        warnings == IF Len(integ.files) = 0 THEN << NoFilesWarning >> ELSE << >>
        issues   == issues0 \o MissingIssues(integ.files, existing)
    IN  [ passed |-> Passed(issues, warnings), issues |-> issues, warnings |-> warnings ]

\* formatChangeLog
formatChangeLog(entries) ==
    IF Len(entries) = 0
    THEN [ kind |-> "No changes recorded.", blocks |-> << >> ]
    ELSE [ kind |-> "# Change Log", blocks |-> entries ]

\* MasterTA.generateFinalOutput
generateFinalOutput(integ, verification, log) ==
    [ report |-> integ.output,
      status |-> IF verification.passed THEN "PASSED" ELSE "FAILED",
      issues |-> verification.issues,
      warnings |-> verification.warnings,
      files |-> integ.files,
      changeLog |-> formatChangeLog(log) ]

(***************************************************************************)
(* State                                                                   *)
(***************************************************************************)
VARIABLES
    task,              \* the task text given to MasterTA.execute
    pc,                \* position of MasterTA.execute
    plan,              \* the plan returned by createPlan
    notationRegistry,  \* CourseState.notationRegistry
    registrations,     \* history: the registerNotation calls made so far
    agentState,        \* per handler: "idle", "running" or "done"
    settled,           \* per handler: the Result its promise resolved with
    results,           \* the results array of delegateToAgents
    changeLog,         \* MasterTA.changeLog
    sandbox,           \* the files present under the materials directory
    integrated,        \* the value returned by integrateResults
    lastVerification,  \* MasterTA.lastVerification
    returned,          \* the value returned by MasterTA.execute
    completed,         \* history: the handlers in the order they returned, each with
                       \* whether its call of the model failed
    courseName,        \* CourseState.courseName
    language,          \* CourseState.language
    assumptions,       \* CourseState.assumptions
    lectures,          \* CourseState.lectures, as its entries in insertion order
    undefinedFields,   \* the fields of the CourseState object that are undefined
    stateFile,         \* the document at the --state path
    savedState,        \* history: the CourseState that toJSON was last called on
    storePc,           \* "open", then "saved" after toJSON, "loaded" after fromJSON
    options,           \* the options of the run command
    cliPc,             \* position of the run command's action
    exitCode,          \* the code given to process.exit, -1 while the process runs
    outcome,           \* which process.exit call ended the process
    stateWrites,       \* history: the writes of the document at the --state path
    basePath,          \* FileSystemTools.basePath, as its segments
    fsAccepted,        \* history: the resolved paths that validatePath returned
    fsTouched,         \* history: the paths given to the functions of fs
    fsRejected,        \* history: the path arguments that validatePath threw for
    fsCalls            \* history: the number of calls of the file tools

\* the variables of the course state store besides the notation registry
storeVars == << courseName, language, assumptions, lectures, undefinedFields,
                stateFile, savedState, storePc >>

\* the variables of a run of MasterTA.execute besides the notation registry
runVars == << task, pc, plan, registrations, agentState, settled, results, changeLog,
              sandbox, integrated, lastVerification, returned, completed >>

\* the variables of the run command
cliVars == << options, cliPc, exitCode, outcome, stateWrites >>

\* the variables of the file tools
fsVars == << basePath, fsAccepted, fsTouched, fsRejected, fsCalls >>

\* the variables that MasterTA.execute and the handlers leave alone
restVars == << storeVars, cliVars, fsVars >>

vars == << runVars, notationRegistry, restVars >>

NoPlan == [ taskType |-> "mixed", agents |-> << >>, parallel |-> FALSE ]

NoResult == createErrorResult("none", "none")

NoIntegrated == [ output |-> [ task |-> << >>, sections |-> << >> ], files |-> << >> ]

NoReturn == [ agentType |-> "none", success |-> FALSE, files |-> << >> ]

\* the initial value of the lastVerification field
InitialVerification == [ passed |-> TRUE, issues |-> << >>, warnings |-> << >> ]

PlanAgents == { plan.agents[i] : i \in 1..Len(plan.agents) }

\* CourseState.registerNotation called on the course state before the run
RegisterNotation(e) ==
    /\ pc = "start"
    /\ Len(notationRegistry) + Len(registrations) < MaxNotation
    /\ notationRegistry' =
          registerNotation(notationRegistry, e.symbol, e.meaning, e.introducedIn)
    /\ registrations' = Append(registrations, e)
    /\ UNCHANGED << task, pc, plan, agentState, settled, results, changeLog, sandbox,
                    integrated, lastVerification, returned, completed >>
    /\ UNCHANGED restVars

\* MasterTA.execute, STEP 1: const plan = await this.createPlan(task, context)
CreatePlan ==
    /\ pc = "start"
    /\ plan' = createPlan(task)
    /\ pc' = "planned"
    /\ UNCHANGED << task, notationRegistry, registrations, agentState, settled, results,
                    changeLog, sandbox, integrated, lastVerification, returned, completed >>
    /\ UNCHANGED restVars

\* delegateToAgents, parallel branch: plan.agents.map(...) starts every
\* handler, each running up to its call of the model
LaunchParallel ==
    /\ pc = "planned"
    /\ plan.parallel
    /\ agentState' = [ a \in AgentSet |-> IF a \in PlanAgents THEN "running" ELSE "idle" ]
    /\ pc' = "delegate"
    /\ UNCHANGED << task, plan, notationRegistry, registrations, settled, results,
                    changeLog, sandbox, integrated, lastVerification, returned, completed >>
    /\ UNCHANGED restVars

\* delegateToAgents, sequential branch: the for loop starts the next handler
\* once the one before it has returned
StartSequential ==
    /\ pc \in { "planned", "delegate" }
    /\ ~plan.parallel
    /\ Len(results) < Len(plan.agents)
    /\ \A a \in AgentSet : agentState[a] # "running"
    /\ agentState' = [ agentState EXCEPT ![plan.agents[Len(results) + 1]] = "running" ]
    /\ pc' = "delegate"
    /\ UNCHANGED << task, plan, notationRegistry, registrations, settled, results,
                    changeLog, sandbox, integrated, lastVerification, returned, completed >>
    /\ UNCHANGED restVars

\* executeSubAgent keeping only the newest change-log entry
HandlerReturnsLogReplaced(a, result, written) ==
    /\ sandbox' = sandbox \cup written
    /\ changeLog' =
          IF result.success
          THEN << createChangeLogEntry(a, "execute",
                                       IF result.hasFiles THEN result.files ELSE << >>,
                                       CompletedDescription(task)) >>
          ELSE changeLog
    /\ agentState' = [ agentState EXCEPT ![a] = "done" ]
    /\ settled' = [ settled EXCEPT ![a] = result ]
    /\ results' = IF plan.parallel THEN results ELSE Append(results, result)
    /\ completed' = Append(completed, [ agent |-> a, failed |-> ~result.success ])
    /\ UNCHANGED << task, pc, plan, notationRegistry, registrations, integrated,
                    lastVerification, returned >>
    /\ UNCHANGED restVars

\* executeSubAgent putting the newest change-log entry first
HandlerReturnsLogPrepended(a, result, written) ==
    /\ sandbox' = sandbox \cup written
    /\ changeLog' =
          IF result.success
          THEN << createChangeLogEntry(a, "execute",
                                       IF result.hasFiles THEN result.files ELSE << >>,
                                       CompletedDescription(task)) >> \o changeLog
          ELSE changeLog
    /\ agentState' = [ agentState EXCEPT ![a] = "done" ]
    /\ settled' = [ settled EXCEPT ![a] = result ]
    /\ results' = IF plan.parallel THEN results ELSE Append(results, result)
    /\ completed' = Append(completed, [ agent |-> a, failed |-> ~result.success ])
    /\ UNCHANGED << task, pc, plan, notationRegistry, registrations, integrated,
                    lastVerification, returned >>
    /\ UNCHANGED restVars

\* executeSubAgent registering a symbol for a successful handler
HandlerReturnsRegistering(a, result, written) ==
    /\ sandbox' = sandbox \cup written
    /\ changeLog' =
          IF result.success
          THEN Append(changeLog,
                      createChangeLogEntry(a, "execute",
                                           IF result.hasFiles THEN result.files ELSE << >>,
                                           CompletedDescription(task)))
          ELSE changeLog
    /\ agentState' = [ agentState EXCEPT ![a] = "done" ]
    /\ settled' = [ settled EXCEPT ![a] = result ]
    /\ results' = IF plan.parallel THEN results ELSE Append(results, result)
    /\ completed' = Append(completed, [ agent |-> a, failed |-> ~result.success ])
    /\ notationRegistry' = IF result.success
                           THEN registerNotation(notationRegistry, "Q", "quota", 3)
                           ELSE notationRegistry
    /\ UNCHANGED << task, pc, plan, registrations, integrated, lastVerification, returned >>
    /\ UNCHANGED restVars

\* executeSubAgent logging only a result that produced files
HandlerReturnsLogWithFiles(a, result, written) ==
    /\ sandbox' = sandbox \cup written
    /\ changeLog' =
          IF result.success /\ result.hasFiles /\ Len(result.files) > 0
          THEN Append(changeLog,
                      createChangeLogEntry(a, "execute", result.files,
                                           CompletedDescription(task)))
          ELSE changeLog
    /\ agentState' = [ agentState EXCEPT ![a] = "done" ]
    /\ settled' = [ settled EXCEPT ![a] = result ]
    /\ results' = IF plan.parallel THEN results ELSE Append(results, result)
    /\ completed' = Append(completed, [ agent |-> a, failed |-> ~result.success ])
    /\ UNCHANGED << task, pc, plan, notationRegistry, registrations, integrated,
                    lastVerification, returned >>
    /\ UNCHANGED restVars

\* executeSubAgent after the handler's execute has returned `result`: the
\* change-log entry of a successful result, then the result is handed back
\* (pushed to results by the for loop, or kept by its promise for Promise.all)
HandlerReturns(a, result, written) ==
    /\ sandbox' = sandbox \cup written
    /\ changeLog' =
          IF result.success
          THEN Append(changeLog,
                      createChangeLogEntry(a, "execute",
                                           IF result.hasFiles THEN result.files ELSE << >>,
                                           CompletedDescription(task)))
          ELSE changeLog
    /\ agentState' = [ agentState EXCEPT ![a] = "done" ]
    /\ settled' = [ settled EXCEPT ![a] = result ]
    /\ results' = IF plan.parallel THEN results ELSE Append(results, result)
    /\ completed' = Append(completed, [ agent |-> a, failed |-> ~result.success ])
    /\ UNCHANGED << task, pc, plan, notationRegistry, registrations, integrated,
                    lastVerification, returned >>
    /\ UNCHANGED restVars

\* the notation registry of the CourseState object is undefined
RegistryUndefined == "notationRegistry" \in undefinedFields

\* LatexTA.execute reads courseState.notationRegistry.length before its
\* call of the model; the other handlers do not read the registry for a
\* task text without a lecture number that extractLectureNumber finds
ReadThrows(a) == a = "LatexTA" /\ RegistryUndefined

\* TypeError: Cannot read properties of undefined (reading 'length')
UndefinedReadError == "TypeError: reading 'length' of undefined"

\* TypeError: this.notationRegistry is not iterable
NotIterableError == "TypeError: notationRegistry is not iterable"

\* a handler's execute: the read of the undefined registry throws inside
\* the try block and the catch block returns the error result
HandlerThrows(a) ==
    /\ pc = "delegate"
    /\ agentState[a] = "running"
    /\ ReadThrows(a)
    /\ HandlerReturns(a, createErrorResult(a, UndefinedReadError), {})

\* a handler's execute: the model answers, the files of the response are
\* written (a failed write leaves its file out of the list) and the success
\* result is returned
HandlerSucceeds(a, files) ==
    /\ pc = "delegate"
    /\ agentState[a] = "running"
    /\ ~ReadThrows(a)
    /\ HandlerReturns(a, createSuccessResult(a, Response(a), files),
                      { files[i] : i \in 1..Len(files) })

\* MasterTA.execute, catch block: the result returned for a thrown error
executeCatch(message) ==
    [ agentType |-> "MasterTA",
      success |-> FALSE,
      output |-> [ error |-> message ],
      files |-> << >>,
      errors |-> << message >> ]

\* a handler whose error escapes executeSubAgent and ends execute in its
\* catch block
HandlerFailsAborts(a) ==
    /\ pc = "delegate"
    /\ agentState[a] = "running"
    /\ returned' = executeCatch(ApiError)
    /\ pc' = "done"
    /\ UNCHANGED << task, plan, notationRegistry, registrations, agentState, settled,
                    results, changeLog, sandbox, integrated, lastVerification, completed >>
    /\ UNCHANGED restVars

\* a handler that calls the model again after a failed call
HandlerFailsRetries(a) ==
    /\ pc = "delegate"
    /\ agentState[a] = "running"
    /\ completed' = Append(completed, [ agent |-> a, failed |-> TRUE ])
    /\ UNCHANGED << task, pc, plan, notationRegistry, registrations, agentState, settled,
                    results, changeLog, sandbox, integrated, lastVerification, returned >>
    /\ UNCHANGED restVars

\* a handler's execute: callClaude throws and the catch block returns the
\* error result
HandlerFails(a) ==
    /\ pc = "delegate"
    /\ agentState[a] = "running"
    /\ ~ReadThrows(a)
    /\ HandlerReturns(a, createErrorResult(a, ApiError), {})

\* delegateToAgents returning as soon as one handler has returned
DelegateReturnsEarly ==
    /\ pc = "delegate"
    /\ \E a \in PlanAgents : agentState[a] = "done"
    /\ results' = IF plan.parallel
                  THEN LET done == SelectSeq(plan.agents, LAMBDA a : agentState[a] = "done")
                       IN  [ i \in 1..Len(done) |-> settled[done[i]] ]
                  ELSE results
    /\ pc' = "integrate"
    /\ UNCHANGED << task, plan, notationRegistry, registrations, agentState, settled,
                    changeLog, sandbox, integrated, lastVerification, returned, completed >>
    /\ UNCHANGED restVars

\* delegateToAgents collecting the parallel results as the handlers return
DelegateReturnsAsCompleted ==
    /\ pc = "delegate"
    /\ \A a \in PlanAgents : agentState[a] = "done"
    /\ results' = IF plan.parallel
                  THEN [ i \in 1..Len(completed) |-> settled[completed[i].agent] ]
                  ELSE results
    /\ pc' = "integrate"
    /\ UNCHANGED << task, plan, notationRegistry, registrations, agentState, settled,
                    changeLog, sandbox, integrated, lastVerification, returned, completed >>
    /\ UNCHANGED restVars

\* delegateToAgents returns: after Promise.all has every result (pushed in
\* plan order), or after the for loop has run through the plan
DelegateReturns ==
    /\ pc = "delegate"
    /\ \A a \in PlanAgents : agentState[a] = "done"
    /\ results' = IF plan.parallel
                  THEN [ i \in 1..Len(plan.agents) |-> settled[plan.agents[i]] ]
                  ELSE results
    /\ pc' = "integrate"
    /\ UNCHANGED << task, plan, notationRegistry, registrations, agentState, settled,
                    changeLog, sandbox, integrated, lastVerification, returned, completed >>
    /\ UNCHANGED restVars

\* MasterTA.execute, STEP 3
Integrate ==
    /\ pc = "integrate"
    /\ integrated' = integrateResults(results, task)
    /\ pc' = "verify"
    /\ UNCHANGED << task, plan, notationRegistry, registrations, agentState, settled,
                    results, changeLog, sandbox, lastVerification, returned, completed >>
    /\ UNCHANGED restVars

\* the materials directory is shared with its user: a written file is gone
\* (fs.access fails) by the time verify asks for it
FileRemoved(f) ==
    /\ pc = "verify"
    /\ f \in sandbox
    /\ sandbox' = sandbox \ { f }
    /\ UNCHANGED << task, pc, plan, notationRegistry, registrations, agentState, settled,
                    results, changeLog, integrated, lastVerification, returned, completed >>
    /\ UNCHANGED restVars

\* MasterTA.execute, STEP 4
Verify ==
    /\ pc = "verify"
    /\ ~RegistryUndefined
    /\ lastVerification' = verify(integrated, notationRegistry, sandbox)
    /\ pc' = "output"
    /\ UNCHANGED << task, plan, notationRegistry, registrations, agentState, settled,
                    results, changeLog, sandbox, integrated, returned, completed >>
    /\ UNCHANGED restVars

\* MasterTA.execute, STEP 4 on an undefined registry: the loop of
\* verifyNotationConsistency throws and execute returns from its catch block
VerifyThrows ==
    /\ pc = "verify"
    /\ RegistryUndefined
    /\ returned' = executeCatch(NotIterableError)
    /\ pc' = "done"
    /\ UNCHANGED << task, plan, notationRegistry, registrations, agentState, settled,
                    results, changeLog, sandbox, integrated, lastVerification, completed >>
    /\ UNCHANGED restVars

\* MasterTA.execute: generateFinalOutput and the returned result
Return ==
    /\ pc = "output"
    /\ returned' = [ agentType |-> "MasterTA",
                     success |-> lastVerification.passed,
                     output |-> generateFinalOutput(integrated, lastVerification, changeLog),
                     files |-> integrated.files ]
    /\ pc' = "done"
    /\ UNCHANGED << task, plan, notationRegistry, registrations, agentState, settled,
                    results, changeLog, sandbox, integrated, lastVerification, completed >>
    /\ UNCHANGED restVars

\* the CourseState object of the process
CourseStateNow ==
    [ courseName |-> courseName, language |-> language,
      notationRegistry |-> notationRegistry, assumptions |-> assumptions,
      lectures |-> lectures, undefinedFields |-> undefinedFields ]

\* no document at the --state path
NoFile == [ kind |-> "missing" ]

NoSavedState == NewCourseState("", "en")

\* a CourseState that nothing has been saved from or loaded into
StoreAtRest ==
    /\ assumptions = << >>
    /\ lectures = << >>
    /\ undefinedFields = {}
    /\ stateFile = NoFile
    /\ savedState = NoSavedState
    /\ storePc = "open"

\* CourseState.registerAssumption called by a user of the course state
RegisterAssumption(x) ==
    /\ storePc = "open"
    /\ Len(assumptions) < MaxAssumptions
    /\ assumptions' = registerAssumption(assumptions, x.description, x.introducedIn,
                                         x.validFrom, x.hasValidTo, x.validTo)
    /\ UNCHANGED << runVars, notationRegistry, courseName, language, lectures,
                    undefinedFields, stateFile, savedState, storePc, cliVars >>
    /\ UNCHANGED fsVars

\* CourseState.updateLecture called by a user of the course state
UpdateLecture(metadata) ==
    /\ storePc = "open"
    /\ lectures' = updateLecture(lectures, metadata)
    /\ UNCHANGED << runVars, notationRegistry, courseName, language, assumptions,
                    undefinedFields, stateFile, savedState, storePc, cliVars >>
    /\ UNCHANGED fsVars

\* the state is saved: toJSON and the write of the document
SaveState ==
    /\ storePc = "open"
    /\ stateFile' = toJSON(CourseStateNow)
    /\ savedState' = CourseStateNow
    /\ storePc' = "saved"
    /\ UNCHANGED << runVars, notationRegistry, courseName, language, assumptions,
                    lectures, undefinedFields, cliVars >>
    /\ UNCHANGED fsVars

\* the next process reads the document and restores its state with fromJSON
LoadState ==
    /\ storePc = "saved"
    /\ ~fromJSONThrows(stateFile)
    /\ LET state == fromJSON(stateFile)
       IN  /\ courseName' = state.courseName
           /\ language' = state.language
           /\ notationRegistry' = state.notationRegistry
           /\ assumptions' = state.assumptions
           /\ lectures' = state.lectures
           /\ undefinedFields' = state.undefinedFields
    /\ storePc' = "loaded"
    /\ UNCHANGED << runVars, stateFile, savedState, cliVars >>
    /\ UNCHANGED fsVars

\* the fields of a new MasterTA and the locals of an execute not yet begun
RunAtRest ==
    /\ plan = NoPlan
    /\ registrations = << >>
    /\ agentState = [ a \in AgentSet |-> "idle" ]
    /\ settled = [ a \in AgentSet |-> NoResult ]
    /\ results = << >>
    /\ changeLog = << >>
    /\ sandbox = {}
    /\ integrated = NoIntegrated
    /\ lastVerification = InitialVerification
    /\ returned = NoReturn
    /\ completed = << >>

\* the run command with its default options, at its call of executeWithMetadata
CliAtRest ==
    /\ options = [ lang |-> "en", apiKey |-> TRUE, state |-> FALSE,
                   course |-> "Economics Course" ]
    /\ cliPc = "run"
    /\ exitCode = -1
    /\ outcome = "none"
    /\ stateWrites = 0

\* the file tools of the default materials directory, not yet called
FsAtRest ==
    /\ basePath = << DirCourse >>
    /\ fsAccepted = {}
    /\ fsTouched = {}
    /\ fsRejected = {}
    /\ fsCalls = 0

\* the state after construction of CourseState and MasterTA, for a registry
InitWith(registry) ==
    /\ pc = "start"
    /\ notationRegistry = registry
    /\ RunAtRest


\* task texts of the runs: the documented ones, one without any keyword
\* and one with a keyword of the re-scan only
RunTasks == ExampleTasks \cup { <<"u", "n", "i", "f", "y">> }

\* the registries CourseState.fromJSON restores from a persisted document
LoadedRegistries == SeqsUpTo(NotationEntries, MaxNotation)

\* a run of the CLI: the course state is new or restored from a document
Init ==
    /\ task \in RunTasks
    /\ \E registry \in LoadedRegistries : InitWith(registry)
    /\ courseName = "Economics Course"
    /\ language = "en"
    /\ StoreAtRest
    /\ CliAtRest
    /\ FsAtRest

Next ==
    \/ \E e \in NotationEntries : RegisterNotation(e)
    \/ CreatePlan
    \/ LaunchParallel
    \/ StartSequential
    \/ \E a \in AgentSet, files \in SeqsUpTo(Files, MaxFiles) : HandlerSucceeds(a, files)
    \/ \E a \in AgentSet : HandlerFails(a)
    \/ DelegateReturns
    \/ Integrate
    \/ \E f \in Files : FileRemoved(f)
    \/ Verify
    \/ Return

Spec == Init /\ [][Next]_vars

\* planning alone, over every task text
InitPlan ==
    /\ task \in Tasks
    /\ InitWith(<< >>)
    /\ courseName = "Economics Course"
    /\ language = "en"
    /\ StoreAtRest
    /\ CliAtRest
    /\ FsAtRest

NextPlan == CreatePlan

SpecPlan == InitPlan /\ [][NextPlan]_vars

\* the notation registries of the course states that are saved
StoredRegistries ==
    { << >> } \cup { << e >> : e \in NotationEntries }
              \cup { r \in { << e1, e2 >> : e1 \in NotationEntries, e2 \in NotationEntries } :
                       r[1].symbol # r[2].symbol }

\* the course state store alone: a state is built up, saved, and restored
\* by the next process
InitStore ==
    /\ task = taskFixSlides
    /\ \E registry \in StoredRegistries : InitWith(registry)
    /\ courseName \in CourseNames
    /\ language \in Languages
    /\ StoreAtRest
    /\ CliAtRest
    /\ FsAtRest

NextStore ==
    \/ \E x \in AssumptionArgs : RegisterAssumption(x)
    \/ \E metadata \in LectureMetadatas : UpdateLecture(metadata)
    \/ SaveState
    \/ LoadState

SpecStore == InitStore /\ [][NextStore]_vars

\* the arguments of the registerNotation calls on a new course state
RegisteredEntries ==
    NotationEntries \cup
        { [ symbol |-> "P", meaning |-> "profit", introducedIn |-> 2 ],
          [ symbol |-> "Q", meaning |-> "quota", introducedIn |-> 2 ] }

\* the notation registry alone: registerNotation calls on a new CourseState
InitRegistry ==
    /\ task = taskFixSlides
    /\ InitWith(<< >>)
    /\ courseName = "Economics Course"
    /\ language = "en"
    /\ StoreAtRest
    /\ CliAtRest
    /\ FsAtRest

\* the registerNotation calls followed on a new course state
MaxRegistrations == 3

\* CourseState.registerNotation called on a new course state
RegisterOnNewState(e) ==
    /\ pc = "start"
    /\ Len(registrations) < MaxRegistrations
    /\ notationRegistry' =
          registerNotation(notationRegistry, e.symbol, e.meaning, e.introducedIn)
    /\ registrations' = Append(registrations, e)
    /\ UNCHANGED << task, pc, plan, agentState, settled, results, changeLog, sandbox,
                    integrated, lastVerification, returned, completed >>
    /\ UNCHANGED restVars

NextRegistry == \E e \in RegisteredEntries : RegisterOnNewState(e)

SpecRegistry == InitRegistry /\ [][NextRegistry]_vars

(***************************************************************************)
(* The run command (cli.ts)                                                *)
(***************************************************************************)
\* MasterTA.executeWithMetadata: the result of execute with the change log
\* and the last verification
executeWithMetadata(result, verification, log) ==
    [ success |-> result.success,
      output |-> result.output,
      changeLog |-> log,
      verification |-> verification,
      files |-> result.files ]

\* fs.readFile(options.state) throws: there is no document at the path
readFileThrows(file) == file.kind = "missing"

\* the run command ends the process
ProcessExit(code, by) ==
    /\ exitCode' = code
    /\ outcome' = by
    /\ cliPc' = "exited"

\* the checks of --lang and of the API key of the environment
CheckOptions ==
    /\ cliPc = "options"
    /\ IF options.lang \notin Languages
       THEN ProcessExit(1, "invalid language")
       ELSE IF ~options.apiKey
            THEN ProcessExit(1, "missing API key")
            ELSE cliPc' = "load" /\ UNCHANGED << exitCode, outcome >>
    /\ UNCHANGED << runVars, notationRegistry, storeVars, options, stateWrites >>
    /\ UNCHANGED fsVars

\* load or create course state: the restored state when --state is given
\* and neither readFile nor fromJSON throws, a new CourseState otherwise
LoadOrCreateState ==
    /\ cliPc = "load"
    /\ LET state == IF /\ options.state
                       /\ ~readFileThrows(stateFile)
                       /\ ~fromJSONThrows(stateFile)
                    THEN fromJSON(stateFile)
                    ELSE NewCourseState(options.course, options.lang)
       IN  /\ courseName' = state.courseName
           /\ language' = state.language
           /\ notationRegistry' = state.notationRegistry
           /\ assumptions' = state.assumptions
           /\ lectures' = state.lectures
           /\ undefinedFields' = state.undefinedFields
    /\ cliPc' = "run"
    /\ UNCHANGED << runVars, stateFile, savedState, storePc, options, exitCode,
                    outcome, stateWrites >>
    /\ UNCHANGED fsVars

\* new MasterTA and the call of executeWithMetadata, which calls execute
ExecuteTask ==
    /\ cliPc = "run"
    /\ pc = "idle"
    /\ pc' = "start"
    /\ UNCHANGED << task, plan, registrations, agentState, settled, results, changeLog,
                    sandbox, integrated, lastVerification, returned, completed >>
    /\ UNCHANGED << notationRegistry, restVars >>

\* the run command writing the state only after a successful result
SaveCourseStateOnSuccess ==
    /\ cliPc = "run"
    /\ pc = "done"
    /\ IF options.state /\ returned.success
       THEN /\ stateFile' = toJSON(CourseStateNow)
            /\ stateWrites' = stateWrites + 1
       ELSE UNCHANGED << stateFile, stateWrites >>
    /\ cliPc' = "exit"
    /\ UNCHANGED << runVars, notationRegistry, courseName, language, assumptions,
                    lectures, undefinedFields, savedState, storePc, options, exitCode,
                    outcome >>
    /\ UNCHANGED fsVars

\* executeWithMetadata has returned and the output is displayed: the state
\* is written to the --state path if one is given
SaveCourseState ==
    /\ cliPc = "run"
    /\ pc = "done"
    /\ IF options.state
       THEN /\ stateFile' = toJSON(CourseStateNow)
            /\ stateWrites' = stateWrites + 1
       ELSE UNCHANGED << stateFile, stateWrites >>
    /\ cliPc' = "exit"
    /\ UNCHANGED << runVars, notationRegistry, courseName, language, assumptions,
                    lectures, undefinedFields, savedState, storePc, options, exitCode,
                    outcome >>
    /\ UNCHANGED fsVars

\* fs.writeFile(options.state) throws (the directory of the path does not
\* exist, the disk is full): the outer catch block reports a fatal error
SaveCourseStateFails ==
    /\ cliPc = "run"
    /\ pc = "done"
    /\ options.state
    /\ ProcessExit(1, "fatal error")
    /\ UNCHANGED << runVars, notationRegistry, storeVars, options, stateWrites >>
    /\ UNCHANGED fsVars

\* the run command exiting with the code of the last verification
ExitByLastVerification ==
    /\ cliPc = "exit"
    /\ ProcessExit(IF lastVerification.passed THEN 0 ELSE 1, "result")
    /\ UNCHANGED << runVars, notationRegistry, storeVars, options, stateWrites >>
    /\ UNCHANGED fsVars

\* process.exit(result.success ? 0 : 1)
Exit ==
    /\ cliPc = "exit"
    /\ ProcessExit(IF executeWithMetadata(returned, lastVerification, changeLog).success
                   THEN 0 ELSE 1, "result")
    /\ UNCHANGED << runVars, notationRegistry, storeVars, options, stateWrites >>
    /\ UNCHANGED fsVars

\* a state with two notation entries, an assumption and a lecture, saved
\* by an earlier run
ConsistentState ==
    [ NewCourseState("Economics Course", "de") EXCEPT
        !.notationRegistry =
            << [ symbol |-> "Q", meaning |-> "quantity", introducedIn |-> 1 ],
               [ symbol |-> "P", meaning |-> "price", introducedIn |-> 1 ] >>,
        !.assumptions = registerAssumption(<< >>, "perfect competition", 1, 2, FALSE, 0),
        !.lectures = updateLecture(<< >>, [ number |-> 1, title |-> "Supply" ]) ]

\* a state whose registry holds two meanings of one symbol
ConflictingState ==
    [ NewCourseState("Economics Course", "en") EXCEPT
        !.notationRegistry =
            << [ symbol |-> "Q", meaning |-> "quantity", introducedIn |-> 1 ],
               [ symbol |-> "Q", meaning |-> "quality", introducedIn |-> 4 ] >> ]

\* the documents found at the --state path: none, text that is not JSON,
\* the JSON value null, a JSON object without keys, a JSON object with the
\* course name only, and two documents written by toJSON
StateDocuments ==
    { NoFile,
      [ kind |-> "garbage" ],
      [ kind |-> "null" ],
      [ kind |-> "json", data |-> EmptyObject ],
      [ kind |-> "json", data |-> [ courseName |-> "Economics Course" ] ],
      toJSON(ConsistentState),
      toJSON(ConflictingState) }

\* the values of the options: --lang (one of them not a language), whether
\* the API key is set, whether --state is given, --course
OptionValues ==
    [ lang : Languages \cup { "fr" }, apiKey : BOOLEAN, state : BOOLEAN,
      course : { "Behavioral Economics" } ]

\* the task texts given to the run command
CliTasks == { taskFixSlides, taskSlidesHomework }

\* the run command is started
InitCli ==
    /\ task \in CliTasks
    /\ pc = "idle"
    /\ notationRegistry = << >>
    /\ RunAtRest
    /\ options \in OptionValues
    /\ courseName = options.course
    /\ language = "en"
    /\ assumptions = << >>
    /\ lectures = << >>
    /\ undefinedFields = {}
    /\ stateFile \in StateDocuments
    /\ savedState = NoSavedState
    /\ storePc = "open"
    /\ cliPc = "options"
    /\ exitCode = -1
    /\ outcome = "none"
    /\ stateWrites = 0
    /\ FsAtRest

NextCli ==
    \/ CheckOptions
    \/ LoadOrCreateState
    \/ ExecuteTask
    \/ CreatePlan
    \/ LaunchParallel
    \/ StartSequential
    \/ \E a \in AgentSet, files \in SeqsUpTo(Files, MaxFiles) : HandlerSucceeds(a, files)
    \/ \E a \in AgentSet : HandlerFails(a)
    \/ \E a \in AgentSet : HandlerThrows(a)
    \/ DelegateReturns
    \/ Integrate
    \/ \E f \in Files : FileRemoved(f)
    \/ Verify
    \/ VerifyThrows
    \/ Return
    \/ SaveCourseState
    \/ SaveCourseStateFails
    \/ Exit

SpecCli == InitCli /\ [][NextCli]_vars

(***************************************************************************)
(* Calls of the file tools                                                 *)
(***************************************************************************)
\* a method of FileSystemTools: validatePath first, which throws before any
\* function of fs is called, then the functions of fs on `touched`
FsCall(method, filePath, touched) ==
    /\ fsCalls' = fsCalls + 1
    /\ IF validatePathThrows(basePath, filePath)
       THEN /\ fsRejected' = fsRejected \cup { [ method |-> method, path |-> filePath ] }
            /\ UNCHANGED << fsAccepted, fsTouched >>
       ELSE /\ fsAccepted' = fsAccepted \cup
                   { [ method |-> method, path |-> validatePath(basePath, filePath) ] }
            /\ fsTouched' = fsTouched \cup touched
            /\ UNCHANGED fsRejected
    /\ UNCHANGED << runVars, notationRegistry, storeVars, cliVars, basePath >>

\* FileSystemTools.readFile: fs.readFile(fullPath)
ReadFile(filePath) ==
    /\ fsCalls < MaxFsCalls
    /\ FsCall("readFile", filePath, { validatePath(basePath, filePath) })

\* FileSystemTools.writeFile: fs.mkdir(path.dirname(fullPath)), fs.writeFile(fullPath)
WriteFile(filePath) ==
    /\ fsCalls < MaxFsCalls
    /\ FsCall("writeFile", filePath, { dirname(validatePath(basePath, filePath)),
                                       validatePath(basePath, filePath) })

\* FileSystemTools.listDirectory: fs.readdir(fullPath)
ListDirectory(dirPath) ==
    /\ fsCalls < MaxFsCalls
    /\ FsCall("listDirectory", dirPath, { validatePath(basePath, dirPath) })

\* FileSystemTools.exists: fs.access(fullPath)
Exists(filePath) ==
    /\ fsCalls < MaxFsCalls
    /\ FsCall("exists", filePath, { validatePath(basePath, filePath) })

\* FileSystemTools.createDirectory: fs.mkdir(fullPath)
CreateDirectory(dirPath) ==
    /\ fsCalls < MaxFsCalls
    /\ FsCall("createDirectory", dirPath, { validatePath(basePath, dirPath) })

\* FileSystemTools.findFiles: fs.readdir(fullPath) and below it
FindFiles(dirPath) ==
    /\ fsCalls < MaxFsCalls
    /\ FsCall("findFiles", dirPath, { validatePath(basePath, dirPath) })

\* the file tools of a base directory are called with path arguments
InitFs ==
    /\ task = taskFixSlides
    /\ InitWith(<< >>)
    /\ courseName = "Economics Course"
    /\ language = "en"
    /\ StoreAtRest
    /\ CliAtRest
    /\ basePath \in BasePaths
    /\ fsAccepted = {}
    /\ fsTouched = {}
    /\ fsRejected = {}
    /\ fsCalls = 0

NextFs ==
    \/ \E filePath \in FilePaths : ReadFile(filePath)
    \/ \E filePath \in FilePaths : WriteFile(filePath)
    \/ \E dirPath \in FilePaths : ListDirectory(dirPath)
    \/ \E filePath \in FilePaths : Exists(filePath)
    \/ \E dirPath \in FilePaths : CreateDirectory(dirPath)
    \/ \E dirPath \in FilePaths : FindFiles(dirPath)

SpecFs == InitFs /\ [][NextFs]_vars

(***************************************************************************)
(* Properties of classification and planning                               *)
(***************************************************************************)
FamilySet == { Families[i] : i \in 1..Len(Families) }

\* the families of which at least one classifier keyword occurs in the
\* lower-cased text
MatchedFamilies(text) ==
    { f \in FamilySet :
        \E k \in 1..Len(keywords[f]) : Includes(ToLowerCase(text), keywords[f][k]) }

\* the handler that owns a family
Owner(f) == Agents[CHOOSE i \in 1..Len(Families) : Families[i] = f]

Range(s) == { s[i] : i \in 1..Len(s) }

\* C1: classifyTask is total and keyword-driven: the category of family F
\* when keywords of F and of no other family occur in the lower-cased text,
\* 'mixed' when keywords of two or more families, or of none, occur.
C1_ClassifyByKeywords ==
    pc = "planned" =>
        LET M == MatchedFamilies(task)
        IN  /\ plan.taskType \in TaskTypes
            /\ \A f \in FamilySet : (M = {f}) => (plan.taskType = f)
            /\ (Cardinality(M) # 1) => (plan.taskType = "mixed")

\* a mixed-case text with keywords of exactly one family has been classified
C1_Witness ==
    /\ pc = "planned"
    /\ task # ToLowerCase(task)
    /\ Cardinality(MatchedFamilies(task)) = 1
    /\ plan.taskType # "mixed"

\* C2: the plan of every task text has a non-empty handler list.
C2_PlanNeverEmpty == pc = "planned" => Len(plan.agents) > 0

\* a text without any keyword has been planned
C2_Witness ==
    /\ pc = "planned"
    /\ MatchedFamilies(task) = {}
    /\ plan.taskType = "mixed"
    /\ plan.agents = << "ProblemSetTA", "LatexTA" >>

\* C3: a task of a non-mixed category gets exactly the handler owning that
\* category, not in parallel; "Fix lecture 3 slides errors and unify
\* notation" gets [LatexTA], non-parallel.
C3_SingleOwnerPlan ==
    pc = "planned" =>
        /\ (plan.taskType # "mixed") =>
              /\ plan.agents = << Owner(plan.taskType) >>
              /\ plan.parallel = FALSE
        /\ (task = taskFixSlides) =>
              plan = [ taskType |-> "latex", agents |-> << "LatexTA" >>,
                       parallel |-> FALSE ]

\* the documented slides task has been planned
C3_Witness == pc = "planned" /\ task = taskFixSlides /\ plan.taskType = "latex"

\* C4: for a task classified 'mixed' the plan holds a handler exactly when a
\* keyword of that handler's classifier family occurs in the lower-cased
\* text, and the default pair only when no family's keyword occurs.
C4_RescanSameFamilies ==
    (pc = "planned" /\ plan.taskType = "mixed") =>
        LET M == MatchedFamilies(task)
        IN  IF M = {}
            THEN plan.agents = << "ProblemSetTA", "LatexTA" >>
            ELSE \A f \in FamilySet : (Owner(f) \in Range(plan.agents)) <=> (f \in M)

\* C5: parallel is true exactly when the plan holds more than one handler;
\* "Create lecture 5 slides and homework problems" is mixed and gets
\* LatexTA and ProblemSetTA in parallel.
C5_ParallelIffSeveral ==
    pc = "planned" =>
        /\ plan.parallel <=> (Len(plan.agents) > 1)
        /\ (task = taskSlidesHomework) =>
              plan = [ taskType |-> "mixed",
                       agents |-> << "LatexTA", "ProblemSetTA" >>,
                       parallel |-> TRUE ]

C5_Witness == pc = "planned" /\ task = taskSlidesHomework

(***************************************************************************)
(* Properties of verification and delegation                               *)
(***************************************************************************)
Symbols == { e.symbol : e \in NotationEntries }

\* the run has passed its verify step
Verified == pc \in { "output", "done" }

\* the issues of the last verification that report a notation conflict
ConflictIssues == SelectSeq(lastVerification.issues, LAMBDA m : m.kind = "conflict")

\* the issues of the last verification that report a missing file
MissingFileIssues == SelectSeq(lastVerification.issues, LAMBDA m : m.kind = "missing")

\* the meanings a symbol was registered with by registerNotation calls
RegisteredMeanings(sy) ==
    { registrations[i].meaning :
        i \in { j \in 1..Len(registrations) : registrations[j].symbol = sy } }

\* the meanings the records of a symbol carry in the registry
RecordedMeanings(sy) ==
    { notationRegistry[i].meaning :
        i \in { j \in 1..Len(notationRegistry) : notationRegistry[j].symbol = sy } }

\* C6: a symbol registered with one meaning and later with a different one
\* is reported by the next verify in one issue naming the symbol and its
\* meanings, and passed is false.
C6_RegisteredConflictReported ==
    Verified =>
        \A sy \in Symbols :
            (Cardinality(RegisteredMeanings(sy)) > 1) =>
                /\ \E i \in 1..Len(ConflictIssues) :
                      /\ ConflictIssues[i].symbol = sy
                      /\ RegisteredMeanings(sy) \subseteq Range(ConflictIssues[i].meanings)
                /\ lastVerification.passed = FALSE

\* C7: over the whole registry, verify reports exactly one conflict per
\* symbol whose records carry more than one distinct meaning, naming the
\* symbol and each of these meanings once, and none for a symbol whose
\* records all carry the same meaning; the conflicts are copied to issues.
C7_OneConflictPerSymbol ==
    Verified =>
        /\ \A sy \in Symbols :
              LET about == SelectSeq(ConflictIssues, LAMBDA m : m.symbol = sy)
              IN  IF Cardinality(RecordedMeanings(sy)) > 1
                  THEN /\ Len(about) = 1
                       /\ Range(about[1].meanings) = RecordedMeanings(sy)
                       /\ Len(about[1].meanings) = Cardinality(RecordedMeanings(sy))
                  ELSE Len(about) = 0
        /\ \A i \in 1..Len(ConflictIssues) : ConflictIssues[i].symbol \in Symbols

\* three records of one symbol, two of them with the same meaning, have
\* been verified and reported once
C7_Witness ==
    /\ Verified
    /\ Len(notationRegistry) = 3
    /\ \A i \in 1..3 : notationRegistry[i].symbol = "Q"
    /\ Len(ConflictIssues) = 1
    /\ Len(ConflictIssues[1].meanings) = 2

\* C8: passed is true exactly when the issues list is empty, whatever the
\* warnings list holds.
C8_PassedIffNoIssues == lastVerification.passed <=> (Len(lastVerification.issues) = 0)

\* a verification with a warning and no issue has passed
C8_Witness ==
    /\ Verified
    /\ Len(lastVerification.warnings) > 0
    /\ Len(lastVerification.issues) = 0
    /\ lastVerification.passed

\* C9: verify's file check reports each listed file that is not in the
\* sandbox in one issue (never in a warning) and nothing for a file that is;
\* for an empty file list it gives exactly one warning and no issue, so
\* passed stays true when there is no notation conflict.
C9_FileCheck ==
    Verified =>
        LET files == integrated.files
        IN  /\ \A f \in Files :
                  Cardinality({ i \in 1..Len(MissingFileIssues) :
                                   MissingFileIssues[i].file = f })
                  = Cardinality({ i \in 1..Len(files) : files[i] = f /\ f \notin sandbox })
            /\ Len(lastVerification.issues) = Len(ConflictIssues) + Len(MissingFileIssues)
            /\ lastVerification.warnings =
                  IF Len(files) = 0 THEN << NoFilesWarning >> ELSE << >>
            /\ (Len(files) = 0) => (Len(MissingFileIssues) = 0)
            /\ (Len(files) = 0 /\ \A sy \in Symbols : Cardinality(RecordedMeanings(sy)) <= 1)
                  => lastVerification.passed

\* a file list with one file present and one file gone has been verified
C9_Witness ==
    /\ Verified
    /\ Len(integrated.files) = 2
    /\ \E i, j \in 1..2 : integrated.files[i] \in sandbox /\ integrated.files[j] \notin sandbox
    /\ Len(MissingFileIssues) = 1

\* the run has passed its delegate step
Delegated == pc \in { "integrate", "verify", "output", "done" }

\* C10: in parallel mode delegate returns exactly one Result per planned
\* handler, whichever handlers fail and in whatever order they return: a
\* failing handler has its error in its own Result with success = false,
\* every sibling has run to its end, and integrate starts after all of them.
C10_ParallelJoin ==
    (plan.parallel /\ Delegated) =>
        /\ Len(results) = Len(plan.agents)
        /\ \A a \in PlanAgents :
              /\ agentState[a] = "done"
              /\ Cardinality({ i \in 1..Len(results) : results[i].agentType = a }) = 1
              /\ Cardinality({ i \in 1..Len(completed) : completed[i].agent = a }) = 1
        /\ \A i \in 1..Len(completed) :
              \E k \in 1..Len(results) :
                  /\ results[k].agentType = completed[i].agent
                  /\ results[k].success = ~completed[i].failed
                  /\ completed[i].failed =>
                        (results[k].hasErrors /\ results[k].errors = << ApiError >>)

\* a parallel plan whose second handler failed first, followed by a sibling
\* that succeeded, has been joined
C10_Witness ==
    /\ plan.parallel
    /\ pc = "integrate"
    /\ Len(completed) = 2
    /\ completed[1].agent = plan.agents[2] /\ completed[1].failed
    /\ completed[2].agent = plan.agents[1] /\ ~completed[2].failed

(***************************************************************************)
(* Properties of the change log, of integration and of the report          *)
(***************************************************************************)
\* the positions of the change log whose entry names a handler
EntriesBy(log, a) == { i \in 1..Len(log) : log[i].agent = a }

\* the handlers that have returned a successful Result with produced files
SucceededWithFiles ==
    { a \in AgentSet : /\ agentState[a] = "done"
                       /\ settled[a].success
                       /\ settled[a].hasFiles
                       /\ Len(settled[a].files) > 0 }

\* every handler that succeeded with files has exactly one entry, naming
\* it and its files
OneEntryPerSuccess ==
    \A a \in SucceededWithFiles :
        /\ Cardinality(EntriesBy(changeLog, a)) = 1
        /\ \A i \in EntriesBy(changeLog, a) :
              /\ changeLog[i].files = settled[a].files
              /\ changeLog[i].action = "execute"

\* the change log keeps every entry it has, unaltered and in place
LogOnlyGrows ==
    /\ Len(changeLog') >= Len(changeLog)
    /\ SubSeq(changeLog', 1, Len(changeLog)) = changeLog

\* C11: during delegate every successful Result with produced files gets
\* exactly one change-log entry naming its handler and its files, appended
\* when the handler returns; no step removes or alters an entry.
C11_ChangeLogAppendOnly ==
    [][ /\ LogOnlyGrows
        /\ OneEntryPerSuccess'
        /\ \A a \in SucceededWithFiles' \ SucceededWithFiles :
              /\ Len(changeLog') = Len(changeLog) + 1
              /\ changeLog'[Len(changeLog')].agent = a
              /\ changeLog'[Len(changeLog')].files = settled'[a].files ]_vars

\* two handlers that ran in parallel have both succeeded with a file, the
\* second of the plan first, and the log holds their entries in that order
C11_Witness ==
    /\ pc = "integrate"
    /\ plan.parallel
    /\ Len(plan.agents) = 2
    /\ SucceededWithFiles = PlanAgents
    /\ Len(changeLog) = 2
    /\ changeLog[1].agent = plan.agents[2]
    /\ changeLog[2].agent = plan.agents[1]
    /\ changeLog[1].files = settled[plan.agents[2]].files

\* the files a Result contributes to the combined file list
Contributed(result) ==
    IF result.success /\ result.hasFiles THEN result.files ELSE << >>

RECURSIVE FilesBefore(_, _)
\* the number of files contributed by the first n Results
FilesBefore(rs, n) ==
    IF n = 0 THEN 0 ELSE FilesBefore(rs, n - 1) + Len(Contributed(rs[n]))

\* the run has passed its integrate step
Integrated == pc \in { "verify", "output", "done" }

\* C12: the combined report has one titled section per Result in the order
\* of the Results, holding the output of a successful Result and the error
\* strings of a failed one; the file list is the files of the successful
\* Results one after the other in that order, duplicates kept.
C12_IntegrateConcatenates ==
    Integrated =>
        LET sections == integrated.output.sections
            files    == integrated.files
        IN  /\ Len(sections) = Len(results)
            /\ \A i \in 1..Len(results) :
                  /\ sections[i].title = results[i].agentType
                  /\ results[i].success =>
                        /\ sections[i].kind = "output"
                        /\ sections[i].body = << results[i].output >>
                  /\ ~results[i].success =>
                        /\ sections[i].kind = "errors"
                        /\ sections[i].body = results[i].errors
            /\ Len(files) = FilesBefore(results, Len(results))
            /\ \A i \in 1..Len(results) :
                  SubSeq(files, FilesBefore(results, i - 1) + 1, FilesBefore(results, i))
                  = Contributed(results[i])

\* two successful Results that report the same file name have been
\* integrated, and the name is listed twice
C12_Witness ==
    /\ Integrated
    /\ Len(results) = 2
    /\ results[1].success /\ results[2].success
    /\ results[1].files = << "a.tex" >>
    /\ results[2].files = << "a.tex" >>
    /\ integrated.files = << "a.tex", "a.tex" >>

\* the planned handlers all returned a failure
AllFailed == \A i \in 1..Len(completed) : completed[i].failed

\* the value returned by execute is a rendered report
ReturnedReport ==
    /\ returned.agentType = "MasterTA"
    /\ DOMAIN returned.output =
          { "report", "status", "issues", "warnings", "files", "changeLog" }

\* C17: whichever planned handlers fail, all of them included, execute goes
\* on through integrate and verify and returns a rendered report with one
\* section per planned handler in plan order, the verification status and
\* the rendered change log; no handler failure ends the run early.
C17_ReportDespiteFailures ==
    /\ pc \in { "start", "planned", "delegate", "integrate", "verify", "output", "done" }
    /\ Delegated => Len(completed) = Len(plan.agents)
    /\ pc = "done" =>
          /\ ReturnedReport
          /\ Len(completed) = Len(plan.agents)
          /\ LET out == returned.output
             IN  /\ Len(out.report.sections) = Len(plan.agents)
                 /\ \A i \in 1..Len(plan.agents) :
                       /\ out.report.sections[i].title = plan.agents[i]
                       /\ out.report.sections[i].kind =
                             IF settled[plan.agents[i]].success THEN "output" ELSE "errors"
                 /\ out.status = IF lastVerification.passed THEN "PASSED" ELSE "FAILED"
                 /\ out.issues = lastVerification.issues
                 /\ out.changeLog = formatChangeLog(changeLog)

\* a run whose two planned handlers both failed has returned its report
C17_Witness ==
    /\ pc = "done"
    /\ Len(plan.agents) = 2
    /\ AllFailed
    /\ ReturnedReport
    /\ Len(returned.output.report.sections) = 2
    /\ returned.output.changeLog.kind = "No changes recorded."

(***************************************************************************)
(* The keyword table of the classifier                                     *)
(***************************************************************************)
\* C20: a task text that consists of one classifier keyword alone is
\* classified as the family of that keyword, and the documented request
\* for bibtex entries is classified 'research'.
C20_KeywordTable ==
    pc = "planned" =>
        /\ \A f \in FamilySet :
              \A k \in 1..Len(keywords[f]) :
                  (task = keywords[f][k]) => (plan.taskType = f)
        /\ (task = taskBibtex) => (plan.taskType = "research")

(***************************************************************************)
(* Properties of the course state store                                    *)
(***************************************************************************)
\* C19: after any registerAssumption calls, every assumption that has both
\* validFrom and validTo has validFrom <= validTo.
C19_ValidRange ==
    \A i \in 1..Len(assumptions) :
        assumptions[i].hasValidTo => assumptions[i].validFrom <= assumptions[i].validTo

\* C13: a state restored by fromJSON from the document that toJSON wrote has
\* the courseName, the language, the notation registry (as a set), the
\* assumption list and the lecture mapping of the state that was saved.
C13_RoundTrip ==
    storePc = "loaded" =>
        /\ undefinedFields = savedState.undefinedFields
        /\ courseName = savedState.courseName
        /\ language = savedState.language
        /\ Range(notationRegistry) = Range(savedState.notationRegistry)
        /\ assumptions = savedState.assumptions
        /\ { lectures[i][1] : i \in 1..Len(lectures) }
              = { savedState.lectures[i][1] : i \in 1..Len(savedState.lectures) }
        /\ \A i \in 1..Len(lectures) : \A j \in 1..Len(savedState.lectures) :
              (lectures[i][1] = savedState.lectures[j][1])
                  => (lectures[i][2] = savedState.lectures[j][2])

\* a German course state with two notation entries, an open-ended and a
\* closed assumption and two lectures has been saved and restored
C13_Witness ==
    /\ storePc = "loaded"
    /\ language = "de"
    /\ Len(notationRegistry) = 2
    /\ Len(assumptions) = 2
    /\ assumptions[1].hasValidTo /\ ~assumptions[2].hasValidTo
    /\ Len(lectures) = 2
    /\ lectures[1][1] = 2

(***************************************************************************)
(* Properties of the run command                                           *)
(***************************************************************************)
\* the keys of a document that holds a complete CourseState
StateKeys == { "courseName", "language", "notationRegistry", "assumptions", "lectures" }

\* the document is missing or corrupt: it cannot be read, is not JSON, or
\* does not hold a complete CourseState
Corrupt(file) ==
    \/ readFileThrows(file)
    \/ fromJSONThrows(file)
    \/ IF file.kind = "json" THEN ~(StateKeys \subseteq DOMAIN file.data) ELSE FALSE

\* C14: when --state is given and the document is missing or corrupt, the
\* run goes on with a new CourseState of the given course name and language
\* and execute gets through plan, delegate, integrate and verify to its
\* report.
C14_FallbackToFreshState ==
    (options.state /\ cliPc = "run" /\ Corrupt(stateFile)) =>
        /\ CourseStateNow = NewCourseState(options.course, options.lang)
        /\ pc = "done" => ReturnedReport

\* the process has ended at process.exit(result.success ? 0 : 1)
Completed == cliPc = "exited" /\ outcome = "result"

\* C15: when --state is given, a run that reaches its end has written the
\* course state to the path before the process exits, whether its
\* verification passed or failed; without --state nothing is written.
C15_StateWritten ==
    /\ stateWrites \in { 0, 1 }
    /\ ~options.state => stateWrites = 0
    /\ (options.state /\ (cliPc = "exit" \/ Completed)) =>
          /\ stateWrites = 1
          /\ stateFile = toJSON(CourseStateNow)

\* a run with --state whose verification failed has written the state and
\* exited
C15_Witness ==
    /\ Completed
    /\ options.state
    /\ ReturnedReport
    /\ ~lastVerification.passed
    /\ exitCode = 1
    /\ stateWrites = 1

\* C16: the run command exits with code 0 exactly when execute returned its
\* report and the verification of the run passed; with verification issues,
\* an error caught by execute, a fatal error, an invalid language or a
\* missing API key it exits with code 1.
C16_ExitCode ==
    cliPc = "exited" =>
        /\ exitCode \in { 0, 1 }
        /\ (exitCode = 0) <=>
              /\ outcome = "result"
              /\ pc = "done"
              /\ ReturnedReport
              /\ lastVerification.passed
        /\ (options.lang \notin Languages \/ ~options.apiKey) => exitCode = 1
        /\ outcome \in { "invalid language", "missing API key", "fatal error" }
              => exitCode = 1

\* a run whose verification passed with a warning has exited with code 0
C16_Witness ==
    /\ cliPc = "exited"
    /\ exitCode = 0
    /\ ReturnedReport
    /\ lastVerification.passed
    /\ Len(lastVerification.warnings) = 1

(***************************************************************************)
(* Properties of the file tools                                            *)
(***************************************************************************)
\* the path is the base directory or lies below it
Inside(base, segments) ==
    /\ Len(segments) >= Len(base)
    /\ SubSeq(segments, 1, Len(base)) = base

\* C18: a path argument that resolves outside the base directory, a sibling
\* directory whose name starts with the base directory's name included, is
\* rejected before the filesystem is touched; no accepted path lies outside
\* the base directory.
C18_SandboxConfinement ==
    /\ \A call \in fsAccepted : Inside(basePath, call.path)
    /\ \A call \in fsRejected : ~Inside(basePath, resolve(basePath, call.path))
    /\ \A segments \in fsTouched :
          \E call \in fsAccepted : segments \in { call.path, dirname(call.path) }

(***************************************************************************)
(* Properties of the course state during a run                             *)
(***************************************************************************)
\* LatexTA has returned a successful Result with a written file
LatexSucceeded ==
    /\ agentState["LatexTA"] = "done"
    /\ settled["LatexTA"].success
    /\ Len(settled["LatexTA"].files) > 0

\* C21: in a run of a task classified 'latex' in which LatexTA succeeds on
\* a file, the notation registry has been written (registerNotation has
\* been called) by the time the state is saved.
C21_LatexRunUpdatesRegistry ==
    (cliPc = "exit" /\ options.state /\ plan.taskType = "latex" /\ LatexSucceeded)
        => Len(registrations) > 0

(***************************************************************************)
(* Order of the change log and of the results                              *)
(***************************************************************************)
\* the handlers named by the change log, in its order
LogAgents == [ i \in 1..Len(changeLog) |-> changeLog[i].agent ]

\* the handlers that returned a success, in the order they returned
SucceededInOrder ==
    LET succeeded == SelectSeq(completed, LAMBDA c : ~c.failed)
    IN  [ i \in 1..Len(succeeded) |-> succeeded[i].agent ]

\* C22: the change log names the successful handlers in the order in which
\* they completed, each once; in a sequential plan this is the plan order.
C22_LogInCompletionOrder ==
    /\ LogAgents = SucceededInOrder
    /\ \A a \in AgentSet : Cardinality(EntriesBy(changeLog, a)) <= 1
    /\ ~plan.parallel =>
          LogAgents = SelectSeq(plan.agents,
                                LAMBDA a : agentState[a] = "done" /\ settled[a].success)

\* a parallel run has ended whose log names the second planned handler
\* before the first
C22_Witness ==
    /\ pc = "done"
    /\ plan.parallel
    /\ LogAgents = << plan.agents[2], plan.agents[1] >>

\* the fields of the CourseState that hold course knowledge
Knowledge == << notationRegistry, assumptions, lectures, undefinedFields >>

Executions(a) == Cardinality({ i \in 1..Len(completed) : completed[i].agent = a })

\* C24: in one run a handler is executed, and calls the model, at most once
\* and every planned handler exactly once; a handler whose call failed has
\* returned a failure Result with the error message and is not run again.
C24_NoRetry ==
    /\ \A a \in AgentSet :
          /\ Executions(a) <= 1
          /\ (a \notin PlanAgents) => (Executions(a) = 0)
          /\ (Delegated /\ a \in PlanAgents) => (Executions(a) = 1)
    /\ \A i \in 1..Len(completed) :
          completed[i].failed =>
              /\ agentState[completed[i].agent] = "done"
              /\ settled[completed[i].agent] =
                    createErrorResult(completed[i].agent, ApiError)

\* a run has ended in which the model failed for one handler and answered
\* the other
C24_Witness ==
    /\ pc = "done"
    /\ Len(completed) = 2
    /\ completed[1].failed
    /\ ~completed[2].failed
    /\ Executions(completed[1].agent) = 1

(***************************************************************************)
(* Registries of the course state                                          *)
(***************************************************************************)
\* the i-th assumption has the id assumption_i
SequentialIds ==
    \A i \in 1..Len(assumptions) : assumptions[i].id = AssumptionId(i)

\* C25: starting from no assumptions, after any registerAssumption calls
\* the i-th assumption has the id assumption_i, the ids are pairwise
\* distinct, and no step changes or removes an earlier assumption.
C25_AssumptionsAppendOnly ==
    [][ /\ SequentialIds'
        /\ \A i, j \in 1..Len(assumptions') :
              (assumptions'[i].id = assumptions'[j].id) => (i = j)
        /\ Len(assumptions') >= Len(assumptions)
        /\ SubSeq(assumptions', 1, Len(assumptions)) = assumptions ]_vars

\* two assumptions have been registered, the second of them open-ended
C25_Witness ==
    /\ storePc = "open"
    /\ Len(assumptions) = 2
    /\ assumptions[2].id = AssumptionId(2)
    /\ ~assumptions[2].hasValidTo
    /\ assumptions[1].introducedIn = assumptions[2].introducedIn

\* the registerNotation calls made for a symbol, in their order
RegistrationsOf(sy) == SelectSeq(registrations, LAMBDA e : e.symbol = sy)

\* C26: starting from an empty registry, after any registerNotation calls
\* the registry holds one entry for every registered symbol and none for
\* another, with the meaning of the symbol's latest registration and the
\* lecture number of its first; no step deletes an entry.
C26_OneEntryPerSymbol ==
    [][ /\ Len(notationRegistry') >= Len(notationRegistry)
        /\ \A sy \in { e.symbol : e \in RegisteredEntries } :
              LET calls   == RegistrationsOf(sy)'
                  entries == EntriesOf(notationRegistry', sy)
              IN  IF Len(calls) = 0
                  THEN Len(entries) = 0
                  ELSE /\ Len(entries) = 1
                       /\ entries[1].meaning = calls[Len(calls)].meaning
                       /\ entries[1].introducedIn = calls[1].introducedIn ]_vars

\* a symbol has been registered for lecture 1 and again, with another
\* meaning, for lecture 4
C26_Witness ==
    /\ Len(registrations) = 2
    /\ registrations[1] = [ symbol |-> "Q", meaning |-> "quantity", introducedIn |-> 1 ]
    /\ registrations[2] = [ symbol |-> "Q", meaning |-> "quality", introducedIn |-> 4 ]
    /\ notationRegistry = << [ symbol |-> "Q", meaning |-> "quality", introducedIn |-> 1 ] >>

\* every planned handler has returned a failure and the registry of the
\* course state is an array without a conflict
OnlyHandlersFailed ==
    /\ pc \in { "output", "done" }
    /\ Len(completed) = Len(plan.agents)
    /\ AllFailed
    /\ ~RegistryUndefined
    /\ verifyNotationConsistency(notationRegistry).consistent

\* C27: a handler failure alone does not make a run fail: when every
\* planned handler returned a failure Result and the registry has no
\* conflict, verify yields passed = true with the one warning that no files
\* were generated and no issue, execute and executeWithMetadata report
\* success = true, and the run command exits with code 0.
C27_FailedHandlersStillPass ==
    OnlyHandlersFailed =>
        /\ lastVerification =
              [ passed |-> TRUE, issues |-> << >>, warnings |-> << NoFilesWarning >> ]
        /\ pc = "done" =>
              /\ returned.success
              /\ executeWithMetadata(returned, lastVerification, changeLog).success
        /\ (cliPc = "exited" /\ outcome = "result") => exitCode = 0

\* the run command has exited with code 0 after a run whose two planned
\* handlers both failed
C27_Witness ==
    /\ OnlyHandlersFailed
    /\ Len(plan.agents) = 2
    /\ cliPc = "exited"
    /\ outcome = "result"
    /\ exitCode = 0
    /\ Len(lastVerification.warnings) = 1
    /\ Len(changeLog) = 0

\* the number of Results with success = true in a list of Results
Successes(list) == Cardinality({ i \in 1..Len(list) : list[i].success })

\* C28: executeSubAgent appends one change-log entry for every Result with
\* success = true, with an empty file list too, and none for a Result with
\* success = false; once delegate has returned, the change log of the run
\* is as long as the number of successful Results.
C28_EntryPerSuccessfulResult ==
    [][ /\ Len(completed') > Len(completed) =>
              LET a      == completed'[Len(completed')].agent
                  result == settled'[a]
              IN  IF result.success
                  THEN changeLog' =
                          Append(changeLog,
                                 createChangeLogEntry(a, "execute", result.files,
                                                      CompletedDescription(task)))
                  ELSE changeLog' = changeLog
        /\ pc' \in { "integrate", "verify", "output", "done" } =>
              Len(changeLog') = Successes(results') ]_vars

\* of two handlers one has succeeded without a file and one has failed, and
\* the change log holds the one entry, with an empty file list
C28_Witness ==
    /\ pc = "done"
    /\ Len(results) = 2
    /\ Successes(results) = 1
    /\ \E i \in 1..2 : results[i].success /\ results[i].files = << >>
    /\ Len(changeLog) = 1
    /\ changeLog[1].files = << >>

\* the files of the planned handlers' successful Results, in plan order
FilesInPlanOrder ==
    Flatten([ i \in 1..Len(plan.agents) |->
                IF settled[plan.agents[i]].success
                THEN settled[plan.agents[i]].files ELSE << >> ])

\* C29: in parallel mode the Results returned by delegate are in the plan's
\* handler order whatever the order in which the handlers completed, and so
\* are the sections of the report and the file list.
C29_ParallelResultsInPlanOrder ==
    plan.parallel =>
        /\ Delegated =>
              /\ Len(results) = Len(plan.agents)
              /\ \A i \in 1..Len(plan.agents) :
                    /\ results[i].agentType = plan.agents[i]
                    /\ results[i] = settled[plan.agents[i]]
        /\ pc \in { "verify", "output", "done" } =>
              /\ [ i \in 1..Len(integrated.output.sections) |->
                     integrated.output.sections[i].title ] = plan.agents
              /\ integrated.files = FilesInPlanOrder
        /\ pc = "done" =>
              /\ [ i \in 1..Len(returned.output.report.sections) |->
                     returned.output.report.sections[i].title ] = plan.agents
              /\ returned.output.files = FilesInPlanOrder
              /\ returned.files = FilesInPlanOrder

\* a parallel run has ended in which the second planned handler completed
\* before the first, each with a file of its own: the file list is in plan
\* order and the change log in completion order
C29_Witness ==
    /\ pc = "done"
    /\ plan.parallel
    /\ Len(plan.agents) = 2
    /\ Len(completed) = 2
    /\ completed[1].agent = plan.agents[2]
    /\ completed[2].agent = plan.agents[1]
    /\ Len(returned.files) = 2
    /\ returned.files[1] # returned.files[2]
    /\ returned.files[1] = settled[plan.agents[1]].files[1]
    /\ changeLog[1].files = << returned.files[2] >>

(***************************************************************************)
(* The result of executeWithMetadata                                       *)
(***************************************************************************)
\* the value executeWithMetadata returns once execute has returned
Metadata == executeWithMetadata(returned, lastVerification, changeLog)

\* C30: the success flag returned by executeWithMetadata equals the passed
\* flag of the verification it returns, and that verification is the result
\* of the verify step of the same call, also when execute ended in its catch
\* block before verify stored a result.
C30_SuccessIsVerificationPassed ==
    pc = "done" =>
        /\ Metadata.success = Metadata.verification.passed
        /\ Metadata.verification = verify(integrated, notationRegistry, sandbox)

====
